---------------------------- MODULE Spec2Model ----------------------------
(***************************************************************************)
(* MAX17048 fuel-gauge driver of the HackberryPi CM5                        *)
(* (src/hackberrypi-max17048.c): the attach-time resolution of the design  *)
(* capacity and energy (max17048_probe) and the metric dispatch            *)
(* (max17048_get_property) with the converters and estimators it calls.    *)
(*                                                                         *)
(* TLC's integers are 32 bits wide and trap on overflow, so every value    *)
(* the C code holds in a u32 above INT_MAX or in an s64/u64 is kept as a    *)
(* little-endian sequence of NLimbs base-2^15 limbs ("wide" value).        *)
(***************************************************************************)
EXTENDS Integers, Sequences, FiniteSets

VARIABLES
    props,                   \* firmware properties of the device node
    bound,                   \* "unbound" | "bound" | "failed": driver binding
    probe_ret,               \* return value of max17048_probe
    charge_full_design_uah,  \* struct max17048 .charge_full_design_uah
    energy_full_design_uwh,  \* struct max17048 .energy_full_design_uwh
    log,                     \* dev_warn diagnostics emitted by probe
    regs,                    \* the sensor's registers (raw 16-bit words)
    fault,                   \* what regmap_read returns for each register now
    psp,                     \* selector of the last get_property call
    ret,                     \* its return value
    val,                     \* {} or {val->intval written by the call}
    ref                      \* a remembered earlier query, <<>> when none

vars == <<props, bound, probe_ret, charge_full_design_uah,
          energy_full_design_uwh, log, regs, fault, psp, ret, val, ref>>

-----------------------------------------------------------------------------
(* Wide (64-bit) arithmetic                                                *)

Limb == 32768
NLimbs == 5

\* n in 0 .. 2^31-1 as a wide value
W(n) == <<n % Limb, (n \div Limb) % Limb, n \div (Limb * Limb), 0, 0>>

RECURSIVE WMulFrom(_, _, _, _)
WMulFrom(w, m, i, carry) ==
    IF i > NLimbs THEN <<>>
    ELSE LET t == w[i] * m + carry
         IN  <<t % Limb>> \o WMulFrom(w, m, i + 1, t \div Limb)

\* w * m for 0 <= m <= 2^15
WMul(w, m) == WMulFrom(w, m, 1, 0)

RECURSIVE WDivFrom(_, _, _, _)
WDivFrom(w, d, i, rem) ==
    IF i < 1 THEN <<>>
    ELSE LET t == rem * Limb + w[i]
         IN  WDivFrom(w, d, i - 1, t % d) \o <<t \div d>>

\* w / d truncated, for 0 < d < 2^16
WDiv(w, d) == WDivFrom(w, d, NLimbs, 0)

RECURSIVE WLessFrom(_, _, _)
WLessFrom(a, b, i) ==
    IF i < 1 THEN FALSE
    ELSE IF a[i] # b[i] THEN a[i] < b[i]
    ELSE WLessFrom(a, b, i - 1)

\* a < b
WLess(a, b) == WLessFrom(a, b, NLimbs)

\* the value of w, which is below 2^31
WInt(w) == w[1] + w[2] * Limb + w[3] * Limb * Limb

\* (int) of the 64-bit value sign * w: its low 32 bits, two's complement
CastInt(neg, w) ==
    LET low == w[1] + w[2] * Limb
        top == w[3] % 4
    IN  IF ~neg
        THEN IF top < 2 THEN top * (Limb * Limb) + low
             ELSE (top - 4) * (Limb * Limb) + low
        ELSE IF top < 2 THEN -(top * (Limb * Limb) + low)
             ELSE IF top = 2 /\ low = 0 THEN (-2) * (Limb * Limb)
             ELSE (3 - top) * (Limb * Limb) + (Limb * Limb - low)

\* (u32) of the 64-bit value w: its low 32 bits
CastU32(w) == <<w[1], w[2], w[3] % 4, 0, 0>>

\* div_s64(a * b * m, d) of a >= 0, any b, computed in 64 bits, then (int)
MulDivInt(a, b, m, d) ==
    LET mag == IF b < 0 THEN -b ELSE b
    IN  CastInt(b < 0, WDiv(WMul(WMul(W(a), mag), m), d))


-----------------------------------------------------------------------------
(* Constants of the driver and of the kernel interfaces it uses            *)

MAX17048_VCELL_REG == 2
MAX17048_SOC_REG == 4
MAX17048_CRATE_REG == 22
Registers == {MAX17048_VCELL_REG, MAX17048_SOC_REG, MAX17048_CRATE_REG}

EIO == 5
EINVAL == 22
ENODATA == 61
ETIMEDOUT == 110

POWER_SUPPLY_STATUS_UNKNOWN == 0
POWER_SUPPLY_STATUS_CHARGING == 1
POWER_SUPPLY_STATUS_DISCHARGING == 2
POWER_SUPPLY_STATUS_NOT_CHARGING == 3
POWER_SUPPLY_STATUS_FULL == 4
POWER_SUPPLY_TECHNOLOGY_LIPO == 3

\* the selectors of max17048_battery_props, and one the driver does not serve
max17048_battery_props ==
    {"STATUS", "VOLTAGE_NOW", "CAPACITY", "CHARGE_FULL_DESIGN", "CHARGE_NOW",
     "ENERGY_FULL_DESIGN", "TECHNOLOGY", "CURRENT_NOW", "TIME_TO_EMPTY_NOW",
     "TIME_TO_FULL_NOW"}
OtherProps == {"MANUFACTURER"}

\* a property the device node does not have
Absent == <<>>

-----------------------------------------------------------------------------
(* Register reads and unit converters                                      *)

\* regmap_read: the errno of the transfer and, when it is 0, the 16-bit word
regmap_read(reg) == [ret |-> fault[reg], val |-> regs[reg]]

max17048_get_vcell ==
    LET r == regmap_read(MAX17048_VCELL_REG)
    IN  IF r.ret # 0 THEN r.ret ELSE (r.val * 625) \div 8

\* mutant: the clamp to 100 is missing
Mutant_get_soc_unclamped ==
    LET r == regmap_read(MAX17048_SOC_REG)
    IN  IF r.ret # 0 THEN r.ret ELSE r.val \div 256

max17048_get_soc ==
    LET r   == regmap_read(MAX17048_SOC_REG)
        soc == r.val \div 256
    IN  IF r.ret # 0 THEN r.ret
        ELSE IF soc > 100 THEN 100   \* "soc < 0" is never true of a uint32_t
        ELSE soc

\* (int16_t)crate_raw
CastInt16(raw) ==
    LET low == raw % 65536
    IN  IF low >= 32768 THEN low - 65536 ELSE low

\* crate is written only when ret = 0; callers do not read it otherwise
max17048_get_crate ==
    LET r == regmap_read(MAX17048_CRATE_REG)
    IN  IF r.ret # 0 THEN [ret |-> r.ret, crate |-> 0]
        ELSE [ret |-> 0, crate |-> CastInt16(r.val)]

Abs(x) == IF x < 0 THEN -x ELSE x

-----------------------------------------------------------------------------
(* Estimators.  Each yields [ret, val]: val = {} when *val is not written. *)

\* mutant: the noise band is open at its upper end (crate >= 4 is Charging)
Mutant_get_status_band ==
    LET c   == max17048_get_crate
        soc == max17048_get_soc
    IN  IF c.ret # 0 THEN POWER_SUPPLY_STATUS_UNKNOWN
        ELSE IF c.crate >= 4 THEN POWER_SUPPLY_STATUS_CHARGING
        ELSE IF c.crate < -4 THEN POWER_SUPPLY_STATUS_DISCHARGING
        ELSE IF soc >= 95 THEN POWER_SUPPLY_STATUS_FULL
        ELSE POWER_SUPPLY_STATUS_NOT_CHARGING

max17048_get_status ==
    LET c   == max17048_get_crate
        soc == max17048_get_soc
    IN  IF c.ret # 0 THEN POWER_SUPPLY_STATUS_UNKNOWN
        ELSE IF c.crate > 4 THEN POWER_SUPPLY_STATUS_CHARGING
        ELSE IF c.crate < -4 THEN POWER_SUPPLY_STATUS_DISCHARGING
        ELSE IF soc >= 95 THEN POWER_SUPPLY_STATUS_FULL
        ELSE POWER_SUPPLY_STATUS_NOT_CHARGING

max17048_get_current ==
    LET c == max17048_get_crate
    IN  IF c.ret # 0 THEN [ret |-> c.ret, val |-> {}]
        ELSE [ret |-> 0,
              val |-> {MulDivInt(charge_full_design_uah, c.crate, 52, 25000)}]

\* mutant: the 300 mA floor on the discharge rate is missing
Mutant_get_time_to_empty_no_floor ==
    LET c    == max17048_get_crate
        soc  == max17048_get_soc
        discharge_rate == Abs(c.crate)
    IN  IF c.ret # 0 THEN [ret |-> c.ret, val |-> {}]
        ELSE IF c.crate >= -10 THEN [ret |-> -ENODATA, val |-> {}]
        ELSE IF soc < 0 THEN [ret |-> soc, val |-> {}]
        ELSE IF discharge_rate <= 0 THEN [ret |-> -ENODATA, val |-> {}]
        ELSE [ret |-> 0, val |-> {(225000 * soc) \div (discharge_rate * 13)}]

\* mutant: any negative c-rate is taken as discharging enough to estimate
Mutant_get_time_to_empty_any_rate ==
    LET c    == max17048_get_crate
        soc  == max17048_get_soc
        rate == Abs(c.crate)
        min_discharge_rate == 144230769 \div charge_full_design_uah
        discharge_rate ==
            IF charge_full_design_uah > 0
            THEN IF rate < min_discharge_rate THEN min_discharge_rate ELSE rate
            ELSE rate
    IN  IF c.ret # 0 THEN [ret |-> c.ret, val |-> {}]
        ELSE IF c.crate >= 0 THEN [ret |-> -ENODATA, val |-> {}]
        ELSE IF soc < 0 THEN [ret |-> soc, val |-> {}]
        ELSE IF discharge_rate <= 0 THEN [ret |-> -ENODATA, val |-> {}]
        ELSE [ret |-> 0, val |-> {(225000 * soc) \div (discharge_rate * 13)}]

max17048_get_time_to_empty ==
    LET c    == max17048_get_crate
        soc  == max17048_get_soc
        rate == Abs(c.crate)
        min_discharge_rate == 144230769 \div charge_full_design_uah
        discharge_rate ==
            IF charge_full_design_uah > 0
            THEN IF rate < min_discharge_rate THEN min_discharge_rate ELSE rate
            ELSE rate
    IN  IF c.ret # 0 THEN [ret |-> c.ret, val |-> {}]
        ELSE IF c.crate >= -10 THEN [ret |-> -ENODATA, val |-> {}]
        ELSE IF soc < 0 THEN [ret |-> soc, val |-> {}]
        ELSE IF charge_full_design_uah = 0 /\ discharge_rate = 0
             THEN [ret |-> -ENODATA, val |-> {}]
        ELSE IF discharge_rate <= 0 THEN [ret |-> -ENODATA, val |-> {}]
        ELSE [ret |-> 0, val |-> {(225000 * soc) \div (discharge_rate * 13)}]

\* mutant: the charging path applies the discharge path's minimum-rate floor
Mutant_get_time_to_full_floored ==
    LET c    == max17048_get_crate
        soc  == max17048_get_soc
        min_rate == 144230769 \div charge_full_design_uah
        rate == IF charge_full_design_uah > 0 /\ c.crate < min_rate
                THEN min_rate ELSE c.crate
    IN  IF c.ret # 0 THEN [ret |-> c.ret, val |-> {}]
        ELSE IF c.crate <= 10 THEN [ret |-> -ENODATA, val |-> {}]
        ELSE IF soc < 0 THEN [ret |-> soc, val |-> {}]
        ELSE [ret |-> 0, val |-> {(225000 * (100 - soc)) \div (rate * 13)}]

max17048_get_time_to_full ==
    LET c   == max17048_get_crate
        soc == max17048_get_soc
    IN  IF c.ret # 0 THEN [ret |-> c.ret, val |-> {}]
        ELSE IF c.crate <= 10 THEN [ret |-> -ENODATA, val |-> {}]
        ELSE IF soc < 0 THEN [ret |-> soc, val |-> {}]
        ELSE IF c.crate = 0 THEN [ret |-> -ENODATA, val |-> {}]
        ELSE [ret |-> 0, val |-> {(225000 * (100 - soc)) \div (c.crate * 13)}]

\* the switch of max17048_get_property
Dispatch(p) ==
    CASE p = "STATUS" -> [ret |-> 0, val |-> {max17048_get_status}]
      [] p = "VOLTAGE_NOW" ->
            LET r == max17048_get_vcell
            IN  IF r < 0 THEN [ret |-> r, val |-> {}] ELSE [ret |-> 0, val |-> {r}]
      [] p = "CAPACITY" ->
            LET r == max17048_get_soc
            IN  IF r < 0 THEN [ret |-> r, val |-> {}] ELSE [ret |-> 0, val |-> {r}]
      [] p = "CHARGE_NOW" ->
            LET r == max17048_get_soc
            IN  IF r < 0 THEN [ret |-> r, val |-> {}]
                ELSE [ret |-> 0,
                      val |-> {MulDivInt(charge_full_design_uah, r, 1, 100)}]
      [] p = "CHARGE_FULL_DESIGN" -> [ret |-> 0, val |-> {charge_full_design_uah}]
      [] p = "ENERGY_FULL_DESIGN" -> [ret |-> 0, val |-> {energy_full_design_uwh}]
      [] p = "TECHNOLOGY" -> [ret |-> 0, val |-> {POWER_SUPPLY_TECHNOLOGY_LIPO}]
      [] p = "CURRENT_NOW" -> max17048_get_current
      [] p = "TIME_TO_EMPTY_NOW" -> max17048_get_time_to_empty
      [] p = "TIME_TO_FULL_NOW" -> max17048_get_time_to_full
      [] OTHER -> [ret |-> -EINVAL, val |-> {}]


-----------------------------------------------------------------------------
(* Attach: max17048_probe                                                  *)

U32Max == <<32767, 32767, 3, 0, 0>>

\* device_property_read_u32 into a field that kzalloc left 0: the field after
\* the call (unchanged when the property is absent)
ReadU32(p) == IF p = Absent THEN W(0) ELSE p

\* mutant: the legacy property is consulted whenever the primary one gave 0,
\* not only when it is absent
Mutant_ResolveCapacity_legacy(p) ==
    LET read    == ReadU32(p.charge)
        clamped == IF WLess(W(100000000), read) THEN W(100000000) ELSE read
        legacy  == IF /\ clamped = W(0)
                      /\ p.legacy # Absent
                      /\ WLess(W(0), p.legacy)
                      /\ WLess(p.legacy, W(20000))
                   THEN CastU32(WMul(p.legacy, 1000))
                   ELSE clamped
    IN  IF legacy = W(0) THEN W(5000000) ELSE legacy

\* charge_full_design_uah after lines 305-327, as a wide value
ResolveCapacity(p) ==
    LET read    == ReadU32(p.charge)
        clamped == IF WLess(W(100000000), read) THEN W(100000000) ELSE read
        legacy  == IF /\ p.charge = Absent
                      /\ p.legacy # Absent
                      /\ WLess(W(0), p.legacy)
                      /\ WLess(p.legacy, W(20000))
                   THEN CastU32(WMul(p.legacy, 1000))
                   ELSE clamped
    IN  IF legacy = W(0) THEN W(5000000) ELSE legacy

\* the dev_warn calls of lines 308-327
ProbeWarnings(p) ==
    LET read    == ReadU32(p.charge)
        legacy  == /\ p.charge = Absent
                   /\ p.legacy # Absent
                   /\ WLess(W(0), p.legacy)
                   /\ WLess(p.legacy, W(20000))
    IN  (IF WLess(W(100000000), read) THEN {"clamping"} ELSE {})
        \cup (IF ~legacy /\ read = W(0) THEN {"default"} ELSE {})

\* mutant: a configured energy of 0 is kept instead of being estimated
Mutant_ResolveEnergy_zero(p, cap) ==
    LET read == ReadU32(p.energy)
        est  == IF p.energy = Absent
                THEN CastU32(WDiv(WMul(cap, 37), 10))
                ELSE read
    IN  IF WLess(W(370000000), est) THEN W(370000000) ELSE est

\* energy_full_design_uwh after lines 329-339, given the resolved capacity
ResolveEnergy(p, cap) ==
    LET read == ReadU32(p.energy)
        est  == IF p.energy = Absent \/ read = W(0)
                THEN CastU32(WDiv(WMul(cap, 37), 10))
                ELSE read
    IN  IF WLess(W(370000000), est) THEN W(370000000) ELSE est

HwOutcomes == {"ok", "no_smbus", "regmap_err", "psy_err"}

\* hw: what the platform answers to the functionality check, the regmap
\* creation and the power-supply registration
max17048_probe(hw) ==
    /\ bound = "unbound"
    /\ IF hw = "no_smbus"
       THEN /\ probe_ret' = -EIO
            /\ bound' = "failed"
            /\ UNCHANGED <<charge_full_design_uah, energy_full_design_uwh, log>>
       ELSE LET cap == ResolveCapacity(props)
            IN  /\ log' = ProbeWarnings(props)
                /\ IF hw = "ok"
                   THEN /\ probe_ret' = 0
                        /\ bound' = "bound"
                        /\ charge_full_design_uah' = WInt(cap)
                        /\ energy_full_design_uwh' = WInt(ResolveEnergy(props, cap))
                   ELSE \* PTR_ERR of the failed step (one errno stands for all);
                        \* devm releases the allocation again
                        /\ probe_ret' = -EIO
                        /\ bound' = "failed"
                        /\ UNCHANGED <<charge_full_design_uah,
                                       energy_full_design_uwh>>
    /\ UNCHANGED <<props, regs, fault, psp, ret, val, ref>>

-----------------------------------------------------------------------------
(* Queries: max17048_get_property                                          *)

MaxSince == 2

\* mutant: a ChargeNow query keeps its answer as the new design capacity
Mutant_get_property_caching(p) ==
    /\ bound = "bound"
    /\ psp' = p
    /\ ret' = Dispatch(p).ret
    /\ val' = Dispatch(p).val
    /\ ref' = IF ref = <<>> \/ ref.since >= MaxSince THEN ref
              ELSE [ref EXCEPT !.since = @ + 1]
    /\ charge_full_design_uah' =
          IF p = "CHARGE_NOW" /\ Dispatch(p).ret = 0
          THEN CHOOSE v \in Dispatch(p).val : TRUE
          ELSE charge_full_design_uah
    /\ UNCHANGED <<props, bound, probe_ret,
                   energy_full_design_uwh, log, regs, fault>>

max17048_get_property(p) ==
    /\ bound = "bound"
    /\ psp' = p
    /\ ret' = Dispatch(p).ret
    /\ val' = Dispatch(p).val
    /\ ref' = IF ref = <<>> \/ ref.since >= MaxSince THEN ref
              ELSE [ref EXCEPT !.since = @ + 1]
    /\ UNCHANGED <<props, bound, probe_ret, charge_full_design_uah,
                   energy_full_design_uwh, log, regs, fault>>

\* the caller keeps the answer it just got, to compare later answers with
Remember ==
    /\ psp # "none"
    /\ ref = <<>>
    /\ ref' = [psp |-> psp, regs |-> regs, fault |-> fault,
               ret |-> ret, val |-> val, since |-> 0]
    /\ UNCHANGED <<props, bound, probe_ret, charge_full_design_uah,
                   energy_full_design_uwh, log, regs, fault, psp, ret, val>>

-----------------------------------------------------------------------------
(* Environment: the gauge updates its registers, the shared bus fails      *)

\* the answer of a query is the caller's once it has returned
Returned == psp' = "none" /\ ret' = 0 /\ val' = {}

SensorUpdate(reg, v) ==
    /\ bound = "bound"
    /\ regs[reg] # v
    /\ regs' = [regs EXCEPT ![reg] = v]
    /\ Returned
    /\ UNCHANGED <<props, bound, probe_ret, charge_full_design_uah,
                   energy_full_design_uwh, log, fault, ref>>

BusFault(f) ==
    /\ bound = "bound"
    /\ fault # f
    /\ fault' = f
    /\ Returned
    /\ UNCHANGED <<props, bound, probe_ret, charge_full_design_uah,
                   energy_full_design_uwh, log, regs, ref>>


-----------------------------------------------------------------------------
(* Inputs                                                                  *)

CrateSpan == 11
SocSpan == 1

\* c-rates around the +-4 and +-10 thresholds, around the 300 mA floor of the
\* default capacity (28 LSB), and at the ends of the int16 range
CrateValues ==
    (-CrateSpan .. CrateSpan)
        \cup {-32768, -32767, -29, -28, 28, 29, 32766, 32767}
CrateRaw == {c % 65536 : c \in CrateValues}

\* SOC words: percents around the 95 % threshold and the 100 % clamp, with
\* and without a fraction byte
SocPercents ==
    {0, 50, 90, 255} \cup (95 - SocSpan .. 95 + SocSpan)
        \cup (100 - SocSpan .. 100 + SocSpan)
SocRaw ==
    {256 * h : h \in SocPercents} \cup {256 * h + 255 : h \in {0, 95 - SocSpan, 255}}

VcellRaw == {0, 65535}

RegisterValues ==
    ({MAX17048_VCELL_REG} \X VcellRaw) \cup ({MAX17048_SOC_REG} \X SocRaw)
        \cup ({MAX17048_CRATE_REG} \X CrateRaw)

NoFault == [r \in Registers |-> 0]
Faults ==
    [Registers -> {0, -EIO}]
        \cup {[r \in Registers |-> IF r = q THEN -ETIMEDOUT ELSE 0] : q \in Registers}

NoProps == [charge |-> Absent, legacy |-> Absent, energy |-> Absent]

\* device nodes that resolve to 5 Ah (default), 1 uAh and 100 Ah
QueryProps ==
    {NoProps, [NoProps EXCEPT !.charge = W(1)],
     [NoProps EXCEPT !.charge = W(100000000)]}

AttachProps ==
    [charge : {Absent, W(0), W(1), W(480), W(5000000), W(100000000),
               W(100000001), W(150000000), U32Max},
     legacy : {Absent, W(0), W(1), W(3000), W(5000), W(19999), W(20000), U32Max},
     energy : {Absent, W(0), W(1), W(18500000), W(370000000), W(370000001),
               U32Max}]

-----------------------------------------------------------------------------
(* Specifications                                                          *)

InitWith(P) ==
    /\ props \in P
    /\ bound = "unbound"
    /\ probe_ret = 0
    /\ charge_full_design_uah = 0
    /\ energy_full_design_uwh = 0
    /\ log = {}
    /\ regs = [r \in Registers |-> 0]
    /\ fault = NoFault
    /\ psp = "none"
    /\ ret = 0
    /\ val = {}
    /\ ref = <<>>

Probe == \E hw \in HwOutcomes : max17048_probe(hw)
Sensor == \E rv \in RegisterValues : SensorUpdate(rv[1], rv[2])
Bus == \E f \in Faults : BusFault(f)
Query == \E p \in max17048_battery_props \cup OtherProps : max17048_get_property(p)

\* the metric queries over the sensor inputs
Init == InitWith(QueryProps)
Next == Probe \/ Sensor \/ Bus \/ Query
Spec == Init /\ [][Next]_vars

\* attach over the device-node inputs, and the queries of what it resolved
QueryDesign ==
    \E p \in {"CHARGE_FULL_DESIGN", "ENERGY_FULL_DESIGN"} : max17048_get_property(p)
InitAttach == InitWith(AttachProps)
NextAttach == Probe \/ QueryDesign
SpecAttach == InitAttach /\ [][NextAttach]_vars


\* repeated queries, with the caller remembering one answer
IdemRegisterValues ==
    ({MAX17048_VCELL_REG} \X {0, 65535})
        \cup ({MAX17048_SOC_REG} \X {0, 256 * 95})
        \cup ({MAX17048_CRATE_REG} \X {0, 65536 - 11})
IdemFaults ==
    {NoFault} \cup {[r \in Registers |-> IF r = q THEN -EIO ELSE 0] : q \in Registers}
SensorIdem == \E rv \in IdemRegisterValues : SensorUpdate(rv[1], rv[2])
BusIdem == \E f \in IdemFaults : BusFault(f)
InitIdem == InitWith({NoProps})
NextIdem == Probe \/ SensorIdem \/ BusIdem \/ Query \/ Remember
SpecIdem == InitIdem /\ [][NextIdem]_vars

-----------------------------------------------------------------------------
(* What the properties below read off a state                              *)

Crate == CastInt16(regs[MAX17048_CRATE_REG])
CrateOk == fault[MAX17048_CRATE_REG] = 0
SocOk == fault[MAX17048_SOC_REG] = 0
SocPct == IF regs[MAX17048_SOC_REG] \div 256 > 100 THEN 100
          ELSE regs[MAX17048_SOC_REG] \div 256
DesignCapacity == charge_full_design_uah
DesignEnergy == energy_full_design_uwh
NoData == ret = -ENODATA /\ val = {}

-----------------------------------------------------------------------------
\* C1: a Status query answers Unknown when the rate read fails, else Charging
\* for c-rate > 4, else Discharging for c-rate < -4, else (c-rate in -4..4)
\* Full for SOC >= 95 and NotCharging for SOC < 95, for every SOC in 0..100
\* that a successful SOC read delivers.
StatusExpected ==
    IF ~CrateOk THEN POWER_SUPPLY_STATUS_UNKNOWN
    ELSE IF Crate > 4 THEN POWER_SUPPLY_STATUS_CHARGING
    ELSE IF Crate < -4 THEN POWER_SUPPLY_STATUS_DISCHARGING
    ELSE IF SocPct >= 95 THEN POWER_SUPPLY_STATUS_FULL
    ELSE POWER_SUPPLY_STATUS_NOT_CHARGING

C2_TransportErrorsPropagate ==
    LET rv == fault[MAX17048_VCELL_REG]
        rs == fault[MAX17048_SOC_REG]
        rc == fault[MAX17048_CRATE_REG]
    IN  /\ (psp = "STATUS" /\ rc # 0)
              => ret = 0 /\ val = {POWER_SUPPLY_STATUS_UNKNOWN}
        /\ (psp = "STATUS" /\ rc = 0 /\ Crate \in -4 .. 4 /\ rs # 0)
              => ret = rs /\ val = {}
        /\ (psp = "VOLTAGE_NOW" /\ rv # 0) => ret = rv /\ val = {}
        /\ (psp \in {"CAPACITY", "CHARGE_NOW"} /\ rs # 0) => ret = rs /\ val = {}
        /\ (psp \in {"CURRENT_NOW", "TIME_TO_EMPTY_NOW", "TIME_TO_FULL_NOW"}
                /\ rc # 0) => ret = rc /\ val = {}
        /\ (psp = "TIME_TO_EMPTY_NOW" /\ rc = 0 /\ Crate < -10 /\ rs # 0)
              => ret = rs /\ val = {}
        /\ (psp = "TIME_TO_FULL_NOW" /\ rc = 0 /\ Crate > 10 /\ rs # 0)
              => ret = rs /\ val = {}

\* C3: CurrentNow is the 64-bit quotient DesignCapacity * c-rate * 52 / 25000
\* itself, with no wraparound in the 32-bit result, so it never has the sign
\* opposite to the c-rate's.  (The claim also wants it non-zero for every
\* non-zero c-rate; that part is left out here, the truncating division
\* alone already yields 0 for small products.)
C3_CurrentNoWraparound ==
    (psp = "CURRENT_NOW" /\ CrateOk) =>
        /\ ret = 0
        /\ \A v \in val :
              /\ Crate < 0 => v <= 0
              /\ Crate > 0 => v >= 0
              /\ v > -2147483647   \* so that Abs(v) is an int
              /\ W(Abs(v)) = WDiv(WMul(WMul(W(DesignCapacity), Abs(Crate)), 52), 25000)

\* C4: TimeToEmpty is NoData exactly for c-rate >= -10; for c-rate <= -11 it
\* is 225000 * soc / (r * 13) with r = max(|c-rate|, 144230769 / capacity):
\* non-negative, the same for all c-rates below the floor, and never above
\* the value at the floor.
MinRate == 144230769 \div DesignCapacity
AtFloor == (225000 * SocPct) \div (MinRate * 13)

C4_TimeToEmpty ==
    (psp = "TIME_TO_EMPTY_NOW" /\ CrateOk) =>
        /\ NoData <=> Crate >= -10
        /\ ret = -ENODATA <=> Crate >= -10
        /\ (Crate <= -11 /\ SocOk) =>
              LET r == IF Abs(Crate) < MinRate THEN MinRate ELSE Abs(Crate)
              IN  /\ ret = 0
                  /\ val = {(225000 * SocPct) \div (r * 13)}
                  /\ \A v \in val :
                        /\ 0 <= v /\ v <= AtFloor
                        /\ Abs(Crate) < MinRate => v = AtFloor

\* c-rate -11, soc 50, 5 Ah: floored rate 28, 30906 s
C4_Witness ==
    /\ psp = "TIME_TO_EMPTY_NOW" /\ fault = NoFault
    /\ DesignCapacity = 5000000 /\ Crate = -11
    /\ regs[MAX17048_SOC_REG] = 256 * 50
    /\ MinRate = 28 /\ ret = 0 /\ val = {30906}

\* C5: TimeToFull is NoData exactly for c-rate <= 10; for c-rate in
\* 11..32767 it is 225000 * (100 - soc) / (c-rate * 13), with no floor and
\* whatever the capacity: non-negative, 0 at soc 100.
C5_TimeToFull ==
    (psp = "TIME_TO_FULL_NOW" /\ CrateOk) =>
        /\ NoData <=> Crate <= 10
        /\ ret = -ENODATA <=> Crate <= 10
        /\ (Crate >= 11 /\ SocOk) =>
              /\ ret = 0
              /\ val = {(225000 * (100 - SocPct)) \div (Crate * 13)}
              /\ \A v \in val : v >= 0 /\ (SocPct = 100 => v = 0)

\* c-rate 11, soc 90 at the smallest capacity, where a floor would bite
C5_Witness ==
    /\ psp = "TIME_TO_FULL_NOW" /\ fault = NoFault
    /\ DesignCapacity = 1 /\ Crate = 11
    /\ regs[MAX17048_SOC_REG] = 256 * 90
    /\ ret = 0 /\ val = {15734}

\* C9: a successful SOC read yields min(s / 256, 100), so CapacityPercent is
\* in 0..100 and ChargeNow = soc * capacity / 100 is in 0..capacity.
C9_SocRange ==
    /\ (psp = "CAPACITY" /\ SocOk) =>
          /\ ret = 0 /\ val = {SocPct}
          /\ \A v \in val : 0 <= v /\ v <= 100
    /\ (psp = "CHARGE_NOW" /\ SocOk) =>
          /\ ret = 0 /\ Cardinality(val) = 1
          /\ \A v \in val :
                /\ 0 <= v /\ v <= DesignCapacity
                /\ W(v) = WDiv(WMul(W(DesignCapacity), SocPct), 100)

\* the largest SOC word is reported as 100 %
C9_Witness ==
    /\ psp = "CAPACITY" /\ SocOk
    /\ regs[MAX17048_SOC_REG] = 65535 /\ val = {100}

\* C10: on one snapshot with all reads succeeding, TimeToEmpty has a value
\* only if Status is Discharging, TimeToFull only if Status is Charging,
\* never both, and neither when Status is Full or NotCharging; for c-rate in
\* -10..-5 (5..10) Status is Discharging (Charging) and the time is NoData.
StatusNow == Dispatch("STATUS").val
EmptyNow == Dispatch("TIME_TO_EMPTY_NOW")
FullNow == Dispatch("TIME_TO_FULL_NOW")

C10_CrossMetric ==
    (bound = "bound" /\ fault = NoFault) =>
        /\ (psp = "TIME_TO_EMPTY_NOW" /\ ret = 0) =>
              /\ StatusNow = {POWER_SUPPLY_STATUS_DISCHARGING}
              /\ FullNow.ret = -ENODATA
        /\ (psp = "TIME_TO_FULL_NOW" /\ ret = 0) =>
              /\ StatusNow = {POWER_SUPPLY_STATUS_CHARGING}
              /\ EmptyNow.ret = -ENODATA
        /\ (psp = "STATUS" /\ val \in {{POWER_SUPPLY_STATUS_FULL},
                                      {POWER_SUPPLY_STATUS_NOT_CHARGING}}) =>
              /\ EmptyNow.ret = -ENODATA
              /\ FullNow.ret = -ENODATA
        /\ (psp = "STATUS" /\ Crate \in -10 .. -5) =>
              /\ val = {POWER_SUPPLY_STATUS_DISCHARGING}
              /\ EmptyNow.ret = -ENODATA
        /\ (psp = "STATUS" /\ Crate \in 5 .. 10) =>
              /\ val = {POWER_SUPPLY_STATUS_CHARGING}
              /\ FullNow.ret = -ENODATA

\* Status is Discharging at c-rate -10 while TimeToEmpty has no data
C10_Witness ==
    /\ psp = "STATUS" /\ fault = NoFault /\ Crate = -10
    /\ val = {POWER_SUPPLY_STATUS_DISCHARGING}
    /\ EmptyNow.ret = -ENODATA


-----------------------------------------------------------------------------
(* Attach                                                                  *)

Primary == props.charge
Legacy == props.legacy
LegacyUsable ==
    Legacy # Absent /\ WLess(W(0), Legacy) /\ WLess(Legacy, W(20000))
\* probe took the "Capacity not configured, default 5000mAh" branch
Defaulted == "default" \in log

C6_Range ==
    /\ 1 <= DesignCapacity /\ DesignCapacity <= 100000000
    /\ (Primary # Absent /\ WLess(W(100000000), Primary))
          => DesignCapacity = 100000000
    /\ (Primary # Absent /\ WLess(W(0), Primary) /\ ~WLess(W(100000000), Primary))
          => DesignCapacity = WInt(Primary)
    /\ (Primary = Absent /\ LegacyUsable) => DesignCapacity = 1000 * WInt(Legacy)
    /\ Defaulted => DesignCapacity = 5000000

\* C6 as stated: the capacity is in 1..100,000,000; a primary value above the
\* maximum becomes the maximum, one in 1..100,000,000 is kept, a legacy value
\* in (0, 20000) counts x1000 when the primary is unset; and the default
\* 5,000,000 is taken exactly when the primary is unset or 0 and there is no
\* legacy value in (0, 20000).
C6_AsStated ==
    bound = "bound" =>
        /\ C6_Range
        /\ Defaulted <=> ((Primary = Absent \/ Primary = W(0)) /\ ~LegacyUsable)

\* C6 (amended): as stated, except that the default is taken exactly when
\* the primary is supplied as 0 (whatever the legacy value), or is unset
\* with no legacy value in (0, 20000): the legacy property is consulted only
\* when the primary one is absent.
C6_DesignCapacity ==
    bound = "bound" =>
        /\ C6_Range
        /\ Defaulted <=> (Primary = W(0) \/ (Primary = Absent /\ ~LegacyUsable))

\* a primary 0 beside a usable legacy value: the default, not legacy x1000
C6_Witness ==
    /\ bound = "bound"
    /\ Primary = W(0) /\ Legacy = W(3000)
    /\ Defaulted /\ DesignCapacity = 5000000

\* C7: DesignEnergy is the configured value when present and non-zero,
\* otherwise DesignCapacity * 37 / 10 of the resolved capacity; either way
\* capped at 370,000,000, so it is in 1..370,000,000, and 18,500,000 for the
\* default capacity with no configured energy.
Configured == props.energy # Absent /\ props.energy # W(0)
\* cap * 37 / 10 = 3 * cap + (7 * cap) / 10, without leaving 32 bits
Nominal == 3 * DesignCapacity + (7 * DesignCapacity) \div 10

C7_DesignEnergy ==
    bound = "bound" =>
        /\ 1 <= DesignEnergy /\ DesignEnergy <= 370000000
        /\ (Configured /\ WLess(W(370000000), props.energy))
              => DesignEnergy = 370000000
        /\ (Configured /\ ~WLess(W(370000000), props.energy))
              => DesignEnergy = WInt(props.energy)
        /\ ~Configured
              => DesignEnergy = (IF Nominal > 370000000 THEN 370000000 ELSE Nominal)
        /\ (Defaulted /\ ~Configured) => DesignEnergy = 18500000

\* nothing configured: 5 Ah and 18.5 Wh, as the battery's data sheet has it
C7_Witness ==
    /\ bound = "bound" /\ props = NoProps
    /\ DesignCapacity = 5000000 /\ DesignEnergy = 18500000

-----------------------------------------------------------------------------
\* C8: a query leaves DesignCapacity and DesignEnergy as attach set them and
\* writes no sensor register; so a query answers what the remembered query of
\* the same metric answered on the same register snapshot with the same read
\* outcomes, whatever was queried in between.
Answered == psp' # "none"
SameAsRemembered ==
    /\ ref' # <<>>
    /\ ref'.psp = psp' /\ ref'.regs = regs' /\ ref'.fault = fault'

C8_Stateless ==
    [][Answered =>
          /\ UNCHANGED <<charge_full_design_uah, energy_full_design_uwh>>
          /\ UNCHANGED regs
          /\ SameAsRemembered => (ret' = ref'.ret /\ val' = ref'.val)]_vars

\* the remembered ChargeNow answer is met again after other queries
C8_Witness ==
    /\ ref # <<>> /\ ref.since >= 2
    /\ psp = "CHARGE_NOW" /\ ref.psp = psp
    /\ ref.regs = regs /\ ref.fault = fault
    /\ ret = 0 /\ val = ref.val /\ val = {4750000}

=============================================================================
